---- MODULE Spec2Model ----
(***************************************************************************)
(* Word-search puzzle generator (scripts/generate_puzzles.py): the         *)
(* difficulty profiles, the word filter, and the placement engine of       *)
(* generate_puzzle with its fill and assembly step.                        *)
(*                                                                         *)
(* Letters are their ASCII codes (65..90 for 'A'..'Z'); a word is a        *)
(* sequence of letters; the empty grid cell '' is 0.  The two ratios of a  *)
(* profile (0.10, 0.40, ...) are kept in hundredths, so that               *)
(* int(count * ratio) is (count * ratio) \div 100.                         *)
(***************************************************************************)
EXTENDS Integers, Sequences, FiniteSets, TLC

VARIABLES
    pc,               \* position in main / generate_puzzle
    call,             \* arguments of the pure function under test
    ret,              \* values it returned, in call order
    difficulty,       \* main: diff
    size,             \* main: size; generate_puzzle: size
    params,           \* the difficulty profile in use
    words,            \* main: the theme's fetched words
    available_words,  \* generate_puzzle: available_words (main: usable)
    rnd,              \* the part of the random stream the run draws from
    grid,             \* generate_puzzle: grid
    base_words,       \* generate_puzzle: base_words
    slot,             \* index into base_words of the for loop (1-based)
    w,                \* generate_puzzle: w, the word as written (maybe reversed)
    tries,            \* iterations made of the current attempt loop
    fbi,              \* index into FALLBACK_WORDS of the fallback loop (0: none)
    placed_words,     \* generate_puzzle: placed_words
    solution,         \* generate_puzzle: solution, entries <<pos, dir_idx, len>>
    backwards_used,   \* generate_puzzle: backwards_used
    puzzle            \* the returned record

vars ==
    <<pc, call, ret, difficulty, size, params, words, available_words, rnd, grid,
      base_words, slot, w, tries, fbi, placed_words, solution, backwards_used, puzzle>>

engineVars ==
    <<difficulty, size, params, words, available_words, rnd, grid,
      base_words, slot, w, tries, fbi, placed_words, solution, backwards_used, puzzle>>

-----------------------------------------------------------------------------
(* Bounds of the model *)

\* largest grid size the profile resolver is applied to
MaxGridSize == 20
\* longest candidate list handed to filter_words
MaxWords == 6
\* the attempt loops run min(placement_attempts, MaxAttempts) times
MaxAttempts == 2
\* longest pool handed to generate_puzzle on the small grid
MaxPool == 2
\* most repeats of a word at the end of a theme's list
MaxExtra == 1

-----------------------------------------------------------------------------
(* Configuration tables *)

GRID_SIZES ==
    {8, 10, 12, 15}

DIFFICULTIES ==
    <<"easy", "medium", "hard">>

ALL_DIRECTIONS ==
    << <<0, 1>>, <<1, 0>>, <<1, 1>>, <<-1, 1>>, <<0, -1>>, <<-1, 0>>, <<-1, -1>>, <<1, -1>> >>

FALLBACK_WORDS ==
    << <<80, 85, 90, 90, 76, 69>>,       \* PUZZLE
       <<83, 69, 65, 82, 67, 72>>,       \* SEARCH
       <<70, 73, 78, 68>>,               \* FIND
       <<87, 79, 82, 68>>,               \* WORD
       <<71, 65, 77, 69>>,               \* GAME
       <<70, 85, 78>>,                   \* FUN
       <<66, 82, 65, 73, 78>>,           \* BRAIN
       <<83, 79, 76, 86, 69>>,           \* SOLVE
       <<71, 82, 73, 68>>,               \* GRID
       <<76, 69, 84, 84, 69, 82, 83>> >> \* LETTERS

-----------------------------------------------------------------------------
(* Python helpers *)

Min(a, b) ==
    IF a <= b THEN a ELSE b

Max(a, b) ==
    IF a >= b THEN a ELSE b

Range(s) ==
    {s[k] : k \in DOMAIN s}

\* s[::-1]
Reverse(s) ==
    [k \in 1..Len(s) |-> s[Len(s) + 1 - k]]

\* str.isalpha() on ASCII text: non-empty, letters only
isalpha(x) ==
    /\ Len(x) > 0
    /\ \A k \in 1..Len(x) : (x[k] >= 65 /\ x[k] <= 90) \/ (x[k] >= 97 /\ x[k] <= 122)

\* str.lower() on ASCII text
lower(x) ==
    [k \in 1..Len(x) |-> IF x[k] >= 65 /\ x[k] <= 90 THEN x[k] + 32 ELSE x[k]]

\* x in o, for strings
IsSubstring(x, o) ==
    \E k \in 0..(Len(o) - Len(x)) : SubSeq(o, k + 1, k + Len(x)) = x

\* a < b, for strings (code point order)
StrLess(a, b) ==
    \/ \E k \in 1..Min(Len(a), Len(b)) :
          /\ \A j \in 1..(k - 1) : a[j] = b[j]
          /\ a[k] < b[k]
    \/ /\ Len(a) < Len(b)
       /\ \A j \in 1..Len(a) : a[j] = b[j]

\* (len(a), a.lower()) < (len(b), b.lower()), the key of the inner sort
KeyLess(a, b) ==
    \/ Len(a) < Len(b)
    \/ Len(a) = Len(b) /\ StrLess(lower(a), lower(b))

\* sorted(s, key=lambda w: (len(w), w.lower())): the stable sort; element k
\* goes after every element with a smaller key and after every earlier
\* element whose key is not greater
sorted_by_key(s) ==
    LET pos(k) == 1 + Cardinality({j \in 1..Len(s) :
                        KeyLess(s[j], s[k]) \/ (~KeyLess(s[k], s[j]) /\ j < k)})
    IN  [p \in 1..Len(s) |-> s[CHOOSE k \in 1..Len(s) : pos(k) = p]]

\* sorted(s): the stable sort in string order
sorted(s) ==
    LET pos(k) == 1 + Cardinality({j \in 1..Len(s) :
                        StrLess(s[j], s[k]) \/ (~StrLess(s[k], s[j]) /\ j < k)})
    IN  [p \in 1..Len(s) |-> s[CHOOSE k \in 1..Len(s) : pos(k) = p]]

\* list(dict.fromkeys(s)): first occurrences, in order
RECURSIVE fromkeys(_)
fromkeys(s) ==
    IF s = <<>> THEN <<>>
    ELSE LET init == fromkeys(SubSeq(s, 1, Len(s) - 1))
             last == s[Len(s)]
         IN  IF last \in Range(init) THEN init ELSE Append(init, last)

-----------------------------------------------------------------------------
(* Difficulty profiles *)

\* a copy-and-paste slip: medium takes the word count of easy and hard
get_difficulty_params_samecount(d, grid_size) ==
    [difficulty_label |-> d,
     directions |-> SubSeq(ALL_DIRECTIONS, 1, IF d = "easy" THEN 2 ELSE IF d = "medium" THEN 4 ELSE 8),
     backwards_ratio |-> IF d = "easy" THEN 0 ELSE IF d = "medium" THEN 10 ELSE 40,
     word_count |-> grid_size,
     min_len |-> IF d = "hard" THEN 3 ELSE 4,
     max_len |-> Min(IF d = "easy" THEN 8 ELSE IF d = "medium" THEN 10 ELSE 12, grid_size - 1),
     placement_attempts |-> IF d = "easy" THEN 120 ELSE IF d = "medium" THEN 200 ELSE 400,
     overlap_bias |-> IF d = "easy" THEN 10 ELSE IF d = "medium" THEN 40 ELSE 90]

get_difficulty_params(d, grid_size) ==
    IF d = "easy" THEN
        [difficulty_label |-> "easy",
         directions |-> << <<0, 1>>, <<1, 0>> >>,
         backwards_ratio |-> 0,
         word_count |-> grid_size,
         min_len |-> 4,
         max_len |-> Min(8, grid_size - 1),
         placement_attempts |-> 120,
         overlap_bias |-> 10]
    ELSE IF d = "medium" THEN
        [difficulty_label |-> "medium",
         directions |-> << <<0, 1>>, <<1, 0>>, <<1, 1>>, <<-1, 1>> >>,
         backwards_ratio |-> 10,
         word_count |-> Max(12, (grid_size * 9) \div 10),
         min_len |-> 4,
         max_len |-> Min(10, grid_size - 1),
         placement_attempts |-> 200,
         overlap_bias |-> 40]
    ELSE
        [difficulty_label |-> "hard",
         directions |-> ALL_DIRECTIONS,
         backwards_ratio |-> 40,
         word_count |-> grid_size,
         min_len |-> 3,
         max_len |-> Min(12, grid_size - 1),
         placement_attempts |-> 400,
         overlap_bias |-> 90]

-----------------------------------------------------------------------------
(* Word filter *)

\* w != o and (w in o or o in w)
Related(x, o) ==
    x /= o /\ (IsSubstring(x, o) \/ IsSubstring(o, x))

\* the for loop of filter_words from element k on
RECURSIVE FilterLoop(_, _, _, _)
FilterLoop(filtered, k, selected, target_count) ==
    IF k > Len(filtered) THEN selected
    ELSE LET x == filtered[k]
             sel == IF \E j \in 1..Len(filtered) : Related(x, filtered[j])
                    THEN selected
                    ELSE Append(selected, x)
         IN  IF Len(sel) >= target_count * 5 THEN sel
             ELSE FilterLoop(filtered, k + 1, sel, target_count)

\* each word is compared with the next word of the list only
filter_words_nextonly(ws, min_len, max_len, target_count) ==
    LET filtered == SelectSeq(ws, LAMBDA x : min_len <= Len(x) /\ Len(x) <= max_len /\ isalpha(x))
        kept == {k \in 1..Len(filtered) : k = Len(filtered) \/ ~Related(filtered[k], filtered[k + 1])}
        all == SelectSeq([k \in 1..Len(filtered) |-> IF k \in kept THEN filtered[k] ELSE <<>>],
                         LAMBDA x : x /= <<>>)
    IN  SubSeq(all, 1, Min(Len(all), Max(1, target_count * 5)))

filter_words(ws, min_len, max_len, target_count) ==
    LET filtered == SelectSeq(ws, LAMBDA x : min_len <= Len(x) /\ Len(x) <= max_len /\ isalpha(x))
    IN  FilterLoop(filtered, 1, <<>>, target_count)

-----------------------------------------------------------------------------
(* The pure functions on their own: one call of get_difficulty_params, and *)
(* filter_words applied to a candidate list and then to its own result.    *)

\* the state of main and generate_puzzle before either has run
EngineIdle ==
    /\ difficulty = "" /\ size = 0 /\ params = <<>> /\ words = <<>>
    /\ available_words = <<>> /\ rnd = <<>> /\ grid = <<>> /\ base_words = <<>>
    /\ slot = 0 /\ w = <<>> /\ tries = 0 /\ fbi = 0 /\ placed_words = <<>>
    /\ solution = <<>> /\ backwards_used = 0 /\ puzzle = <<>>

InitParams ==
    /\ pc = "call"
    /\ call \in [fn : {"get_difficulty_params"},
                 difficulty : Range(DIFFICULTIES),
                 grid_size : 1..MaxGridSize]
    /\ ret = <<>>
    /\ EngineIdle

Resolve ==
    /\ pc = "call"
    /\ call.fn = "get_difficulty_params"
    /\ ret' = Append(ret, get_difficulty_params(call.difficulty, call.grid_size))
    /\ pc' = "returned"
    /\ UNCHANGED <<call, engineVars>>

SpecParams ==
    InitParams /\ [][Resolve]_vars

\* candidate words: B, AB, BB and the non-alphabetic A1
FilterUniverse ==
    {<<66>>, <<65, 66>>, <<66, 66>>, <<65, 49>>}

RECURSIVE SeqsUpTo(_, _)
SeqsUpTo(S, n) ==
    IF n = 0 THEN {<<>>}
    ELSE LET shorter == SeqsUpTo(S, n - 1)
         IN  shorter \cup {Append(s, x) : s \in {t \in shorter : Len(t) = n - 1}, x \in S}

InitFilter ==
    /\ pc = "call"
    /\ call \in [fn : {"filter_words"},
                 words : SeqsUpTo(FilterUniverse, MaxWords),
                 min_len : 1..2,
                 max_len : 1..2,
                 target_count : 0..1]
    /\ ret = <<>>
    /\ EngineIdle

\* filter_words on the candidate list
FilterOnce ==
    /\ pc = "call"
    /\ call.fn = "filter_words"
    /\ ret' = Append(ret, filter_words(call.words, call.min_len, call.max_len, call.target_count))
    /\ pc' = "filtered"
    /\ UNCHANGED <<call, engineVars>>

\* filter_words on the list the first call returned
FilterAgain ==
    /\ pc = "filtered"
    /\ ret' = Append(ret, filter_words(ret[1], call.min_len, call.max_len, call.target_count))
    /\ pc' = "returned"
    /\ UNCHANGED <<call, engineVars>>

SpecFilter ==
    InitFilter /\ [][FilterOnce \/ FilterAgain]_vars

-----------------------------------------------------------------------------
(* Placement helpers *)

\* a list index as Python resolves it: -1 is the last element
PyIndex(k, n) ==
    k % n

\* the index of the cell that letter k (1-based) of a word goes to
CellRow(r, dy, k, n) ==
    PyIndex(r + (k - 1) * dy, n)

CellCol(c, dx, k, n) ==
    PyIndex(c + (k - 1) * dx, n)

\* only the upper bounds of the end cell are tested
can_place_word_upperonly(g, word, r, c, dy, dx, n) ==
    LET er == r + (Len(word) - 1) * dy
        ec == c + (Len(word) - 1) * dx
    IN  /\ er < n /\ ec < n
        /\ \A k \in 1..Len(word) : g[CellRow(r, dy, k, n)][CellCol(c, dx, k, n)] \in {0, word[k]}

\* only the bounds are tested, not the letters already in the grid
can_place_word_nocollision(g, word, r, c, dy, dx, n) ==
    LET er == r + (Len(word) - 1) * dy
        ec == c + (Len(word) - 1) * dx
    IN  0 <= er /\ er < n /\ 0 <= ec /\ ec < n

can_place_word(g, word, r, c, dy, dx, n) ==
    LET er == r + (Len(word) - 1) * dy
        ec == c + (Len(word) - 1) * dx
    IN  IF ~(0 <= er /\ er < n /\ 0 <= ec /\ ec < n) THEN FALSE
        ELSE \A k \in 1..Len(word) :
                 g[CellRow(r, dy, k, n)][CellCol(c, dx, k, n)] \in {0, word[k]}

\* the grid after the loop of place_word: a cell written more than once
\* keeps the last letter written
place_word(g, word, r, c, dy, dx) ==
    LET n == Cardinality(DOMAIN g)
        hits(rr, cc) == {k \in 1..Len(word) : CellRow(r, dy, k, n) = rr /\ CellCol(c, dx, k, n) = cc}
        last(rr, cc) == CHOOSE k \in hits(rr, cc) : \A j \in hits(rr, cc) : j <= k
    IN  [rr \in DOMAIN g |->
            [cc \in DOMAIN g[rr] |->
                IF hits(rr, cc) = {} THEN g[rr][cc] ELSE word[last(rr, cc)]]]

\* ALL_DIRECTIONS.index((dy, dx)), 0-based
dir_index(dy, dx) ==
    (CHOOSE k \in 1..Len(ALL_DIRECTIONS) : ALL_DIRECTIONS[k] = <<dy, dx>>) - 1

\* int(count * params['backwards_ratio']) rounded up instead of truncated
backwards_target_ceil(count, ratio) ==
    (count * ratio + 99) \div 100

\* int(count * params['backwards_ratio'])
backwards_target(count, ratio) ==
    (count * ratio) \div 100

-----------------------------------------------------------------------------
(* The random stream.  rnd.mode = "any": every value the generator can     *)
(* return is drawn.  rnd.mode = "stream": one sampled stream, in which try *)
(* t of slot s draws the direction rnd.d and the start cell                *)
(* (s - 1, rnd.c0 + t * rnd.dc), random.random() < ratio succeeds exactly  *)
(* when rnd.rev, and random.sample returns the first k words.              *)

RECURSIVE Arrangements(_, _)
Arrangements(S, k) ==
    IF k = 0 THEN {<<>>}
    ELSE {Append(s, x) : s \in Arrangements(S, k - 1), x \in S}

\* random.sample(pop, k), k <= len(pop)
RandSample(pop, k) ==
    IF rnd.mode = "any"
    THEN {s \in Arrangements(Range(pop), k) : \A a, b \in 1..k : a /= b => s[a] /= s[b]}
    ELSE {SubSeq(pop, 1, k)}

\* random.random() < ratio
RandBelow(ratio) ==
    IF rnd.mode = "any"
    THEN {b \in BOOLEAN : (b => ratio > 0) /\ (~b => ratio < 100)}
    ELSE {rnd.rev /\ ratio > 0}

\* random.choice(dirs), as an index into dirs
RandDir(dirs) ==
    IF rnd.mode = "any" THEN 1..Len(dirs) ELSE {rnd.d}

\* random.randint(0, size - 1) for the row
RandRow ==
    IF rnd.mode = "any" THEN 0..(size - 1) ELSE {(slot - 1) % size}

\* random.randint(0, size - 1) for the column
RandCol ==
    IF rnd.mode = "any" THEN 0..(size - 1) ELSE {(rnd.c0 + tries * rnd.dc) % size}

\* the letters random.choice draws for the empty cells, by cell
RandFill ==
    {[rc \in (0..(size - 1)) \X (0..(size - 1)) |-> 65 + ((rc[1] * size + rc[2] + k * 25) % 26)] :
        k \in 0..1}

-----------------------------------------------------------------------------
(* generate_puzzle *)

attempts ==
    Min(params.placement_attempts, MaxAttempts)

\* the end of one iteration of the for loop over base_words
NextSlot ==
    /\ slot' = slot + 1
    /\ tries' = 0
    /\ fbi' = 0
    /\ w' = <<>>
    /\ pc' = IF slot + 1 > Len(base_words) THEN "fill" ELSE "slot"

\* the whole pool is taken, whatever the grid size
ChooseWords_all ==
    /\ pc = "start"
    /\ LET pop == fromkeys(available_words)
       IN  \E s \in RandSample(pop, Len(pop)) :
               /\ base_words' = s
               /\ pc' = IF Len(pop) = 0 THEN "fill" ELSE "slot"
    /\ grid' = [rr \in 0..(size - 1) |-> [cc \in 0..(size - 1) |-> 0]]
    /\ placed_words' = <<>>
    /\ solution' = <<>>
    /\ backwards_used' = 0
    /\ slot' = 1
    /\ UNCHANGED <<call, ret, difficulty, size, params, words, available_words, rnd,
                   w, tries, fbi, puzzle>>

\* lines 158-171: the empty grid and the choice of base_words; random.sample
\* raises ValueError when asked for more words than the population holds
ChooseWords ==
    /\ pc = "start"
    /\ LET pop == fromkeys(available_words)
           k == Min(Len(available_words), size)
       IN  IF k > Len(pop)
           THEN /\ pc' = "error"
                /\ base_words' = <<>>
           ELSE \E s \in RandSample(pop, k) :
                    /\ base_words' = s
                    /\ pc' = IF k = 0 THEN "fill" ELSE "slot"
    /\ grid' = [rr \in 0..(size - 1) |-> [cc \in 0..(size - 1) |-> 0]]
    /\ placed_words' = <<>>
    /\ solution' = <<>>
    /\ backwards_used' = 0
    /\ slot' = 1
    /\ UNCHANGED <<call, ret, difficulty, size, params, words, available_words, rnd,
                   w, tries, fbi, puzzle>>

\* lines 174-178, the test succeeds: the word is written backwards
ReverseWord ==
    /\ pc = "slot"
    /\ backwards_used < backwards_target(params.word_count, params.backwards_ratio)
    /\ TRUE \in RandBelow(params.backwards_ratio)
    /\ w' = Reverse(base_words[slot])
    /\ backwards_used' = backwards_used + 1
    /\ tries' = 0
    /\ pc' = "word"
    /\ UNCHANGED <<call, ret, difficulty, size, params, words, available_words, rnd, grid,
                   base_words, slot, fbi, placed_words, solution, puzzle>>

\* lines 174-176, the test fails: the word is written as it is
KeepWord ==
    /\ pc = "slot"
    /\ \/ ~(backwards_used < backwards_target(params.word_count, params.backwards_ratio))
       \/ FALSE \in RandBelow(params.backwards_ratio)
    /\ w' = base_words[slot]
    /\ tries' = 0
    /\ pc' = "word"
    /\ UNCHANGED <<call, ret, difficulty, size, params, words, available_words, rnd, grid,
                   base_words, slot, fbi, placed_words, solution, backwards_used, puzzle>>

\* lines 181-192: one iteration of the attempt loop for the selected word
TryWord ==
    /\ pc = "word"
    /\ tries < attempts
    /\ \/ \E d \in RandDir(params.directions), r \in RandRow, c \in RandCol :
              LET dy == params.directions[d][1]
                  dx == params.directions[d][2]
              IN  /\ can_place_word(grid, w, r, c, dy, dx, size)
                  /\ grid' = place_word(grid, w, r, c, dy, dx)
                  /\ solution' = Append(solution, <<r * size + c, dir_index(dy, dx), Len(w)>>)
                  /\ placed_words' = Append(placed_words, base_words[slot])
                  /\ NextSlot
       \/ /\ ~\A d \in RandDir(params.directions), r \in RandRow, c \in RandCol :
                 can_place_word(grid, w, r, c, params.directions[d][1], params.directions[d][2], size)
          /\ tries' = tries + 1
          /\ UNCHANGED <<grid, solution, placed_words, slot, fbi, w, pc>>
    /\ UNCHANGED <<call, ret, difficulty, size, params, words, available_words, rnd,
                   base_words, backwards_used, puzzle>>

\* lines 195-196: the attempts are used up and the fallback loop starts
WordExhausted ==
    /\ pc = "word"
    /\ tries = attempts
    /\ Len(FALLBACK_WORDS) > 0
    /\ pc' = "fallback"
    /\ fbi' = 1
    /\ tries' = 0
    /\ UNCHANGED <<call, ret, difficulty, size, params, words, available_words, rnd, grid,
                   base_words, slot, w, placed_words, solution, backwards_used, puzzle>>

\* the fallback loop goes on to the next fallback word after a success
TryFallback_nobreak ==
    /\ pc = "fallback"
    /\ tries < attempts
    /\ \/ \E d \in RandDir(params.directions), r \in RandRow, c \in RandCol :
              LET dy == params.directions[d][1]
                  dx == params.directions[d][2]
                  fb == FALLBACK_WORDS[fbi]
              IN  /\ can_place_word(grid, fb, r, c, dy, dx, size)
                  /\ grid' = place_word(grid, fb, r, c, dy, dx)
                  /\ solution' = Append(solution, <<r * size + c, dir_index(dy, dx), Len(fb)>>)
                  /\ placed_words' = Append(placed_words, fb)
                  /\ tries' = attempts
                  /\ UNCHANGED <<slot, fbi, w, pc>>
       \/ /\ ~\A d \in RandDir(params.directions), r \in RandRow, c \in RandCol :
                 can_place_word(grid, FALLBACK_WORDS[fbi], r, c,
                                params.directions[d][1], params.directions[d][2], size)
          /\ tries' = tries + 1
          /\ UNCHANGED <<grid, solution, placed_words, slot, fbi, w, pc>>
    /\ UNCHANGED <<call, ret, difficulty, size, params, words, available_words, rnd,
                   base_words, backwards_used, puzzle>>

\* lines 197-210: one iteration of the attempt loop for fallback word fbi
TryFallback ==
    /\ pc = "fallback"
    /\ tries < attempts
    /\ \/ \E d \in RandDir(params.directions), r \in RandRow, c \in RandCol :
              LET dy == params.directions[d][1]
                  dx == params.directions[d][2]
                  fb == FALLBACK_WORDS[fbi]
              IN  /\ can_place_word(grid, fb, r, c, dy, dx, size)
                  /\ grid' = place_word(grid, fb, r, c, dy, dx)
                  /\ solution' = Append(solution, <<r * size + c, dir_index(dy, dx), Len(fb)>>)
                  /\ placed_words' = Append(placed_words, fb)
                  /\ NextSlot
       \/ /\ ~\A d \in RandDir(params.directions), r \in RandRow, c \in RandCol :
                 can_place_word(grid, FALLBACK_WORDS[fbi], r, c,
                                params.directions[d][1], params.directions[d][2], size)
          /\ tries' = tries + 1
          /\ UNCHANGED <<grid, solution, placed_words, slot, fbi, w, pc>>
    /\ UNCHANGED <<call, ret, difficulty, size, params, words, available_words, rnd,
                   base_words, backwards_used, puzzle>>

\* line 196: the attempts for fallback word fbi are used up, the next one is tried
NextFallback ==
    /\ pc = "fallback"
    /\ tries = attempts
    /\ fbi < Len(FALLBACK_WORDS)
    /\ fbi' = fbi + 1
    /\ tries' = 0
    /\ UNCHANGED <<pc, call, ret, difficulty, size, params, words, available_words, rnd, grid,
                   base_words, slot, w, placed_words, solution, backwards_used, puzzle>>

\* lines 196, 173: no fallback word is left; the slot records nothing
DropSlot ==
    /\ pc = "fallback"
    /\ tries = attempts
    /\ fbi = Len(FALLBACK_WORDS)
    /\ NextSlot
    /\ UNCHANGED <<call, ret, difficulty, size, params, words, available_words, rnd, grid,
                   base_words, placed_words, solution, backwards_used, puzzle>>

\* the fill loop without its test: every cell gets a random letter
FillBlanks_all ==
    /\ pc = "fill"
    /\ \E f \in RandFill :
           grid' = [rr \in 0..(size - 1) |-> [cc \in 0..(size - 1) |-> f[<<rr, cc>>]]]
    /\ pc' = "assemble"
    /\ UNCHANGED <<call, ret, difficulty, size, params, words, available_words, rnd,
                   base_words, slot, w, tries, fbi, placed_words, solution, backwards_used,
                   puzzle>>

\* lines 213-216: every empty cell gets a random letter
FillBlanks ==
    /\ pc = "fill"
    /\ \E f \in RandFill :
           grid' = [rr \in 0..(size - 1) |->
                       [cc \in 0..(size - 1) |->
                           IF grid[rr][cc] = 0 THEN f[<<rr, cc>>] ELSE grid[rr][cc]]]
    /\ pc' = "assemble"
    /\ UNCHANGED <<call, ret, difficulty, size, params, words, available_words, rnd,
                   base_words, slot, w, tries, fbi, placed_words, solution, backwards_used,
                   puzzle>>

\* ''.join(''.join(row) for row in grid)
flat_grid ==
    [p \in 1..(size * size) |-> grid[(p - 1) \div size][(p - 1) % size]]

\* lines 218-229: the returned record
ReturnPuzzle ==
    /\ pc = "assemble"
    /\ puzzle' = [grid |-> flat_grid,
                  solution |-> solution,
                  gridSize |-> size,
                  difficulty |-> params.difficulty_label,
                  wordCount |-> Len(placed_words),
                  wordlist |-> sorted(sorted_by_key(placed_words))]
    /\ pc' = "done"
    /\ UNCHANGED <<call, ret, difficulty, size, params, words, available_words, rnd, grid,
                   base_words, slot, w, tries, fbi, placed_words, solution, backwards_used>>

Next ==
    \/ ChooseWords
    \/ ReverseWord
    \/ KeepWord
    \/ TryWord
    \/ WordExhausted
    \/ TryFallback
    \/ NextFallback
    \/ DropSlot
    \/ FillBlanks
    \/ ReturnPuzzle

\* the words of the pools on the small grid: BA, ABA, BAB
PoolUniverse ==
    {<<66, 65>>, <<65, 66, 65>>, <<66, 65, 66>>}

\* the pools tried: random.sample arranges the words anew, so only pools
\* listed in string order are taken, repeated words included
SmallPools ==
    {s \in SeqsUpTo(PoolUniverse, MaxPool) : \A k \in 1..(Len(s) - 1) : ~StrLess(s[k + 1], s[k])}

SmallSizes ==
    {3}

\* generate_puzzle called on a small grid with the profile of its size and a
\* pool of short words, every random draw possible
Init ==
    /\ pc = "start"
    /\ call = <<>>
    /\ ret = <<>>
    /\ difficulty \in Range(DIFFICULTIES)
    /\ size \in SmallSizes
    /\ params = get_difficulty_params(difficulty, size)
    /\ words = <<>>
    /\ available_words \in SmallPools
    /\ rnd = [mode |-> "any"]
    /\ grid = <<>>
    /\ base_words = <<>>
    /\ slot = 0
    /\ w = <<>>
    /\ tries = 0
    /\ fbi = 0
    /\ placed_words = <<>>
    /\ solution = <<>>
    /\ backwards_used = 0
    /\ puzzle = <<>>

Spec ==
    Init /\ [][Next]_vars

-----------------------------------------------------------------------------
(* main, for one theme and one (size, difficulty) combination, on sampled  *)
(* random streams                                                          *)

\* a theme's fetched words
THEME_WORDS ==
    << <<83, 85, 78>>,  \* SUN
       <<80, 72, 79, 84, 79, 71, 82, 65, 80, 72, 89>>,  \* PHOTOGRAPHY
       <<84, 45, 83, 72, 73, 82, 84>>,  \* T-SHIRT
       <<83, 69, 65, 83>>,  \* SEAS
       <<83, 69, 65, 83, 73, 68, 69>>,  \* SEASIDE
       <<66, 69, 65, 67, 72>>,  \* BEACH
       <<79, 67, 69, 65, 78>>,  \* OCEAN
       <<83, 65, 78, 68>>,  \* SAND
       <<87, 65, 86, 69>>,  \* WAVE
       <<83, 72, 69, 76, 76>>,  \* SHELL
       <<83, 85, 82, 70>>,  \* SURF
       <<84, 73, 68, 69>>,  \* TIDE
       <<67, 79, 82, 65, 76>>,  \* CORAL
       <<68, 85, 78, 69>>,  \* DUNE
       <<75, 69, 76, 80>>,  \* KELP
       <<67, 82, 65, 66>>,  \* CRAB
       <<71, 85, 76, 76>>,  \* GULL
       <<80, 73, 69, 82>>,  \* PIER
       <<82, 69, 69, 70>>,  \* REEF
       <<83, 87, 73, 77>>,  \* SWIM
       <<66, 79, 65, 84>> >>  \* BOAT

\* the theme lists tried: a prefix of THEME_WORDS, then BEACH once more up to
\* MaxExtra times
ThemeLists ==
    {SubSeq(THEME_WORDS, 1, n) \o [k \in 1..e |-> THEME_WORDS[6]] :
        n \in 18..Len(THEME_WORDS), e \in 0..MaxExtra}

Streams(n) ==
    [mode : {"stream"}, c0 : {0, n - 4, n - 1}, dc : {0, 1}, d : {1, 2}, rev : BOOLEAN]

InitTiers ==
    /\ pc = "main"
    /\ call = <<>>
    /\ ret = <<>>
    /\ difficulty \in Range(DIFFICULTIES)
    /\ size \in GRID_SIZES
    /\ params = get_difficulty_params(difficulty, size)
    /\ words \in ThemeLists
    /\ available_words = <<>>
    /\ rnd \in Streams(size)
    /\ grid = <<>>
    /\ base_words = <<>>
    /\ slot = 0
    /\ w = <<>>
    /\ tries = 0
    /\ fbi = 0
    /\ placed_words = <<>>
    /\ solution = <<>>
    /\ backwards_used = 0
    /\ puzzle = <<>>

\* lines 259-265: the theme's words are filtered; a theme with fewer usable
\* words than word_count is skipped, otherwise generate_puzzle is called
FilterTheme ==
    /\ pc = "main"
    /\ LET usable == filter_words(words, params.min_len, params.max_len, params.word_count)
       IN  IF Len(usable) < params.word_count
           THEN /\ pc' = "skipped"
                /\ UNCHANGED available_words
           ELSE /\ pc' = "start"
                /\ available_words' = usable
    /\ UNCHANGED <<call, ret, difficulty, size, params, words, rnd, grid, base_words, slot,
                   w, tries, fbi, placed_words, solution, backwards_used, puzzle>>

NextTiers ==
    \/ FilterTheme
    \/ Next

SpecTiers ==
    InitTiers /\ [][NextTiers]_vars

-----------------------------------------------------------------------------
(* Properties *)

\* round(num / den), halves to the even neighbour, for num >= 0 and den > 0
Round(num, den) ==
    LET q == num \div den
        r == num % den
    IN  IF 2 * r < den THEN q
        ELSE IF 2 * r > den THEN q + 1
        ELSE IF q % 2 = 0 THEN q ELSE q + 1

\* the largest integer q with q * den <= num
Floor(num, den) ==
    CHOOSE q \in 0..num : q * den <= num /\ num < (q + 1) * den

\* the cells of a solution entry <<pos, dir_idx, len>> on a grid of side n
EntryCells(e, n) ==
    LET row == e[1] \div n
        col == e[1] % n
        dv == ALL_DIRECTIONS[e[2] + 1]
    IN  [k \in 1..e[3] |-> <<row + (k - 1) * dv[1], col + (k - 1) * dv[2]>>]

\* the letters of a serialized grid at the cells of a solution entry
ReadEntry(flat, e, n) ==
    LET cells == EntryCells(e, n)
    IN  [k \in 1..e[3] |-> flat[cells[k][1] * n + cells[k][2] + 1]]

InLoop ==
    pc \in {"slot", "word", "fallback"}

FUN ==
    FALLBACK_WORDS[6]

\* C1 as stated: a returned puzzle has wordCount = len(wordlist), and that
\* number is at most the profile's word_count.
C1_CountWithinWordCount ==
    pc = "done" =>
        /\ puzzle.wordCount = Len(puzzle.wordlist)
        /\ Len(puzzle.wordlist) <= params.word_count

\* C1 amended: a returned puzzle has wordCount = len(wordlist), and that number
\* is at most min(number of distinct pool words, grid size), the number of
\* selected words; it is at most word_count for every tier and size except
\* medium at size 15.
C1_CountWithinSelection ==
    pc = "done" =>
        /\ puzzle.wordCount = Len(puzzle.wordlist)
        /\ Len(puzzle.wordlist) <= Min(Cardinality(Range(available_words)), puzzle.gridSize)
        /\ ~(difficulty = "medium" /\ size = 15) => Len(puzzle.wordlist) <= params.word_count

C1_Witness ==
    /\ pc = "done"
    /\ difficulty = "medium" /\ size = 15
    /\ Len(available_words) >= params.word_count
    /\ puzzle.wordCount = 15
    /\ Len(puzzle.wordlist) = 15

\* C2: every cell of every solution entry, decoded from pos, dir and len, has
\* both coordinates in [0, gridSize), for selected, reversed and fallback words.
C2_PlacementsInBounds ==
    /\ \A k \in 1..Len(solution) :
           \A j \in 1..solution[k][3] :
               /\ EntryCells(solution[k], size)[j][1] \in 0..(size - 1)
               /\ EntryCells(solution[k], size)[j][2] \in 0..(size - 1)
    /\ pc = "done" => puzzle.solution = solution /\ puzzle.gridSize = size

C2_Witness ==
    /\ pc = "done"
    /\ Len(puzzle.solution) = 2
    /\ backwards_used = 1
    /\ placed_words[1] /= FUN
    /\ placed_words[2] = FUN
    /\ puzzle.solution[2][2] = 7

\* C3: in the serialized grid of a returned puzzle the letters at the cells of
\* each placement, read from its start cell in its direction, are the word
\* recorded for it in the wordlist or that word reversed.
C3_GridHoldsPlacedWords ==
    pc = "done" =>
        \A k \in 1..Len(puzzle.solution) :
            /\ placed_words[k] \in Range(puzzle.wordlist)
            /\ ReadEntry(puzzle.grid, puzzle.solution[k], puzzle.gridSize)
                   \in {placed_words[k], Reverse(placed_words[k])}

C3_Witness ==
    /\ pc = "done"
    /\ Len(puzzle.solution) = 2
    /\ placed_words = << <<66, 65>>, <<65, 66, 65>> >>
    /\ ReadEntry(puzzle.grid, puzzle.solution[1], puzzle.gridSize) = <<65, 66>>
    /\ Range(EntryCells(puzzle.solution[1], size)) \cap Range(EntryCells(puzzle.solution[2], size)) /= {}

\* C4 as stated: the wordlist holds the pre-reversal text of the placed words,
\* in ascending length, words of equal length in case-insensitive order.
C4_WordlistByLength ==
    pc = "done" =>
        /\ \A x \in Range(placed_words) \cup Range(puzzle.wordlist) :
               Cardinality({k \in 1..Len(placed_words) : placed_words[k] = x})
                   = Cardinality({k \in 1..Len(puzzle.wordlist) : puzzle.wordlist[k] = x})
        /\ \A k \in 1..(Len(puzzle.wordlist) - 1) :
               LET a == puzzle.wordlist[k]
                   b == puzzle.wordlist[k + 1]
               IN  \/ Len(a) < Len(b)
                   \/ Len(a) = Len(b) /\ ~StrLess(lower(b), lower(a))

\* C5: filter_words applied to its own result returns that result.
C5_FilterIdempotent ==
    (pc = "returned" /\ call.fn = "filter_words") => ret[2] = ret[1]

C5_Witness ==
    /\ pc = "returned"
    /\ call.fn = "filter_words"
    /\ call.target_count = 1
    /\ Len(ret[1]) = 5
    /\ Len(filter_words(call.words, call.min_len, call.max_len, 2)) = 6
    /\ Cardinality(Range(ret[1])) < Len(ret[1])

\* C6 as stated: for every pool, repeated words included, word selection
\* completes without error and yields exactly min(number of distinct pool
\* words, grid size) pairwise distinct words of the pool.
C6_SelectionCompletes ==
    /\ pc /= "error"
    /\ pc \notin {"main", "skipped", "start", "error"} =>
           /\ Len(base_words) = Min(Cardinality(Range(available_words)), size)
           /\ Cardinality(Range(base_words)) = Len(base_words)
           /\ Range(base_words) \subseteq Range(available_words)

\* the tier table, with the medium word count taken from the given rounding
TierTable(d, n, medium_count) ==
    [difficulty_label |-> d,
     directions |-> SubSeq(ALL_DIRECTIONS, 1, IF d = "easy" THEN 2 ELSE IF d = "medium" THEN 4 ELSE 8),
     backwards_ratio |-> IF d = "easy" THEN 0 ELSE IF d = "medium" THEN 10 ELSE 40,
     word_count |-> IF d = "medium" THEN Max(12, medium_count) ELSE n,
     min_len |-> IF d = "hard" THEN 3 ELSE 4,
     max_len |-> Min(IF d = "easy" THEN 8 ELSE IF d = "medium" THEN 10 ELSE 12, n - 1),
     placement_attempts |-> IF d = "easy" THEN 120 ELSE IF d = "medium" THEN 200 ELSE 400,
     overlap_bias |-> IF d = "easy" THEN 10 ELSE IF d = "medium" THEN 40 ELSE 90]

\* C7 as stated: get_difficulty_params returns the values of the tier table,
\* medium with word_count = max(12, round(size * 0.9)).
C7_TierTableRounded ==
    (pc = "returned" /\ call.fn = "get_difficulty_params") =>
        ret[1] = TierTable(call.difficulty, call.grid_size, Round(call.grid_size * 9, 10))

\* C7 amended: get_difficulty_params returns the values of the tier table,
\* medium with word_count = max(12, floor(size * 0.9)): size * 0.9 is
\* truncated, not rounded.
C7_TierTableTruncated ==
    (pc = "returned" /\ call.fn = "get_difficulty_params") =>
        ret[1] = TierTable(call.difficulty, call.grid_size, Floor(call.grid_size * 9, 10))

C7_Witness ==
    /\ pc = "returned"
    /\ call.fn = "get_difficulty_params"
    /\ call.difficulty = "medium"
    /\ call.grid_size = 15
    /\ ret[1].word_count = 13
    /\ ret[1].max_len = 10
    /\ ret[1].placement_attempts = 200

\* C8: a grid cell that holds a letter holds the same letter after every step
\* of generate_puzzle.
C8_LettersNeverChange ==
    [][\A rr \in DOMAIN grid : \A cc \in DOMAIN grid[rr] :
           grid[rr][cc] /= 0 => grid'[rr][cc] = grid[rr][cc]]_vars

C8_Witness ==
    /\ pc = "done"
    /\ Len(solution) = 2
    /\ placed_words[2] = FUN
    /\ Range(EntryCells(solution[1], size)) \cap Range(EntryCells(solution[2], size)) /= {}
    /\ \E p \in 1..(size * size) : puzzle.grid[p] \notin (Range(base_words[1]) \cup Range(FUN))

\* C9: a slot adds at most one placement: its selected word, or else the
\* first fallback word, in FALLBACK_WORDS order, with a feasible try, or else
\* nothing; fallback words are tried only after the selected word's attempts
\* are used up, one after the other, and none after a success; the loop then
\* goes on to the next slot without an error.
C9_OnePlacementPerSlot ==
    [][InLoop =>
        LET n == Len(placed_words)
            added == Len(placed_words') = n + 1
        IN  /\ Len(solution) = n /\ n <= slot - 1
            /\ Len(placed_words') \in {n, n + 1}
            /\ Len(solution') = Len(placed_words')
            /\ pc' /= "error"
            /\ added =>
                   /\ pc \in {"word", "fallback"}
                   /\ slot' = slot + 1
                   /\ pc = "word" => placed_words'[n + 1] = base_words[slot] /\ fbi = 0
                   /\ pc = "fallback" => placed_words'[n + 1] = FALLBACK_WORDS[fbi]
                   /\ solution'[n + 1][3] = Len(placed_words'[n + 1])
            /\ (pc /= "fallback" /\ pc' = "fallback") =>
                   pc = "word" /\ tries = attempts /\ fbi' = 1 /\ tries' = 0 /\ slot' = slot
            /\ (pc = "fallback" /\ fbi' /= fbi /\ slot' = slot) =>
                   tries = attempts /\ fbi' = fbi + 1 /\ tries' = 0 /\ ~added
            /\ slot' /= slot =>
                   /\ slot' = slot + 1
                   /\ pc' = IF slot = Len(base_words) THEN "fill" ELSE "slot"
                   /\ added \/ (pc = "fallback" /\ fbi = Len(FALLBACK_WORDS) /\ tries = attempts)
            /\ (~added /\ slot' = slot /\ pc' = pc /\ fbi' = fbi) => tries' = tries + 1]_vars

C9_Witness ==
    /\ pc = "done"
    /\ Len(base_words) = 2
    /\ placed_words = <<FUN>>
    /\ backwards_used = 0

\* the stream in use has draws of random.random() below a positive ratio
DrawCanSucceed ==
    rnd.mode = "any" \/ rnd.rev

\* C10 as stated: at the start of a slot the backwards transform can be taken
\* exactly when fewer than round(word_count * backwards_ratio) reversals were
\* made; with the easy profile no word is ever written reversed.
C10_QuotaRounded ==
    /\ (pc = "slot" /\ DrawCanSucceed) =>
           ((ENABLED ReverseWord)
               <=> backwards_used < Round(params.word_count * params.backwards_ratio, 100))
    /\ difficulty = "easy" => backwards_used = 0 /\ (pc = "word" => w = base_words[slot])

\* C10 amended: at the start of a slot the backwards transform can be taken
\* exactly when fewer than floor(word_count * backwards_ratio) reversals were
\* made (the product is truncated, not rounded); with the easy profile the
\* quota is 0 and no word is ever written reversed.
C10_QuotaTruncated ==
    /\ (pc = "slot" /\ DrawCanSucceed) =>
           ((ENABLED ReverseWord)
               <=> backwards_used < Floor(params.word_count * params.backwards_ratio, 100))
    /\ InLoop => backwards_used <= Floor(params.word_count * params.backwards_ratio, 100)
    /\ difficulty = "easy" => backwards_used = 0 /\ (pc = "word" => w = base_words[slot])

C10_Witness ==
    /\ pc = "slot"
    /\ difficulty = "hard" /\ size = 12
    /\ rnd.rev
    /\ backwards_used = 4
    /\ slot = 5

====
